---- MODULE Spec2Model ----
(***************************************************************************)
(* Model of crates/tauri-bundler/src/bundle/macos/icon.rs:                 *)
(*   create_icns_file        packs the configured icon files into an ICNS  *)
(*                           icon family (specification Spec),             *)
(*   the size rounding used by create_icns_file (specification SpecRound), *)
(*   create_assets_car_file  the actool version gate in front of the       *)
(*                           Assets.car compilation (specification SpecCar)*)
(***************************************************************************)
EXTENDS Integers, Sequences, FiniteSets, TLC

VARIABLES
  \* ---- create_icns_file ----
  files,             \* settings.icon_files(): the caller-supplied icon list
  pc,                \* position inside create_icns_file
  i,                 \* index of the next file of the read loop (line 65)
  images_to_resize,  \* the Vec of line 64
  family,            \* icns::IconFamily: a set of stored icons, one per type
  offered,           \* indices of the files handed to add_icon_to_family, in order
  result,            \* "pending", "OkNone", "OkSome" or "Err"
  error,             \* the error message of an Err result
  out_file,          \* what was put in out_dir
  \* ---- size rounding on its own ----
  probe,             \* a decoded image's dimensions
  probe_out,         \* what lines 74-77 compute for it
  \* ---- create_assets_car_file ----
  icons_left,        \* the part of settings.icons() the loop has not seen yet
  icon_composer_icon_path,
  actool_output,     \* stdout of `actool --version`
  version,           \* get_actool_version()
  car_pc,
  car_result

vars == <<files, pc, i, images_to_resize, family, offered, result, error, out_file,
          probe, probe_out,
          icons_left, icon_composer_icon_path, actool_output, version, car_pc,
          car_result>>

icnsVars == <<files, pc, i, images_to_resize, family, offered, result, error, out_file>>
roundVars == <<probe, probe_out>>
carVars == <<icons_left, icon_composer_icon_path, actool_output, version, car_pc,
             car_result>>

(***************************************************************************)
(* Bounds                                                                  *)
(***************************************************************************)
MaxFiles == 3

MaxSide == 1100

MaxIcons == 3

MaxLines == 2

(***************************************************************************)
(* Arithmetic of lines 75-76                                               *)
(***************************************************************************)
Min(a, b) == IF a < b THEN a ELSE b

Max(a, b) == IF a < b THEN b ELSE a

RECURSIVE Pow2(_)
Pow2(k) == IF k <= 0 THEN 1 ELSE 2 * Pow2(k - 1)

RECURSIVE ILog2(_)
ILog2(s) == IF s < 2 THEN 0 ELSE 1 + ILog2(s \div 2)

IsPowerOfTwo(s) == s >= 1 /\ Pow2(ILog2(s)) = s

\* (orig_size as f32).log2().floor().  The cast is exact below 2^24.  The
\* single-precision logarithm is rounded to the nearest float: just below a
\* power of two 2^(k+1) it rounds up to k+1 when the distance d = 2^(k+1) - s
\* satisfies d * log2(e) / 2^(k+1) < 2^-20 (half an ulp of a float in
\* [16, 32)), i.e. d * 1512775 < 2^(k+1); the first such s is 2^21 - 1.
Log2Floor(s) ==
  LET k == ILog2(s)
  IN  IF Pow2(k + 1) - s <= (Pow2(k + 1) - 1) \div 1512775 THEN k + 1 ELSE k

\* let orig_size = min(w, h);
OrigSizeMax(w, h) == Max(w, h)

OrigSize(w, h) == Min(w, h)

\* let next_size_down = 2f32.powf((orig_size as f32).log2().floor()) as u32;
NextSizeUp(orig_size) ==
  IF IsPowerOfTwo(orig_size) THEN orig_size ELSE 2 * Pow2(ILog2(orig_size))

NextSizeDown(orig_size) == Pow2(Log2Floor(orig_size))

\* if orig_size > next_size_down { push } else { add_icon_to_family }
NeedsResize(orig_size, next_size_down) == orig_size > next_size_down

(***************************************************************************)
(* Inputs of create_icns_file                                              *)
(***************************************************************************)
\* image::ColorType of the decoded image; make_icns_image accepts four.
SupportedColors == {"Rgba8", "Rgb8", "La8", "L8"}

SampleColors == {"Rgba8", "Rgb16"}

\* The icon files the model draws from: decodable images (width, height,
\* whether utils::is_retina holds of the path, colour type), an .icns file,
\* a .car file and a file image::open cannot decode.
ImageFile(w, h, retina, color) ==
  [kind |-> "image", w |-> w, h |-> h, retina |-> retina, color |-> color]

OtherFile(kind) ==
  [kind |-> kind, w |-> 0, h |-> 0, retina |-> FALSE, color |-> "none"]

SampleFiles ==
  { ImageFile(s, s, r, c) : s \in {16, 20, 32}, r \in BOOLEAN, c \in SampleColors }
    \cup { ImageFile(16, 20, FALSE, "Rgba8"), ImageFile(40, 20, FALSE, "Rgba8"),
           ImageFile(48, 48, FALSE, "Rgba8") }
    \cup { OtherFile("icns"), OtherFile("car"), OtherFile("undecodable") }

RECURSIVE SeqsUpTo(_, _)
SeqsUpTo(S, n) ==
  IF n = 0 THEN {<<>>}
  ELSE LET shorter == SeqsUpTo(S, n - 1)
       IN  shorter \cup { Append(q, x) : q \in {t \in shorter : Len(t) = n - 1}, x \in S }

\* let density = if utils::is_retina(&icon_path) { 2 } else { 1 };
Density(file) == IF file.retina THEN 2 ELSE 1

(***************************************************************************)
(* The icns crate as create_icns_file uses it                              *)
(***************************************************************************)
\* An icon type is named by the pixel side and the density it stands for.
NoType == <<0, 0>>

IconTypes ==
  { <<16, 1>>, <<32, 1>>, <<32, 2>>, <<48, 1>>, <<64, 1>>, <<64, 2>>, <<128, 1>>,
    <<256, 1>>, <<256, 2>>, <<512, 1>>, <<512, 2>>, <<1024, 2>> }

\* icns::IconType::from_pixel_size_and_density(width, height, density)
from_pixel_size_and_density(width, height, density) ==
  IF width = height /\ <<width, density>> \in IconTypes
  THEN <<width, density>> ELSE NoType

has_icon_with_type(fam, icon_type) == \E e \in fam : e.icon_type = icon_type

NoError == "none"

\* fn make_icns_image(img) -> io::Result<icns::Image>
make_icns_image(img) ==
  LET pixel_format ==
        CASE img.color = "Rgba8" -> "RGBA"
          [] img.color = "Rgb8" -> "RGB"
          [] img.color = "La8" -> "GrayAlpha"
          [] img.color = "L8" -> "Gray"
          [] OTHER -> "unsupported"
  IN  [err |-> IF pixel_format = "unsupported" THEN "unsupported ColorType" ELSE NoError,
       image |-> [pixel_format |-> pixel_format, w |-> img.w, h |-> img.h,
                  src |-> img.src, resized |-> img.resized]]

\* family.add_icon_with_type(&icon, icon_type)
add_icon_with_type(fam, image, icon_type) ==
  fam \cup {[icon_type |-> icon_type, src |-> image.src, w |-> image.w, h |-> image.h,
             resized |-> image.resized, pixel_format |-> image.pixel_format]}

\* fn add_icon_to_family(icon, density, family) -> io::Result<()>
add_icon_to_family_encode_first(icon, density, fam) ==
  LET icon_type == from_pixel_size_and_density(icon.w, icon.h, density)
      made == make_icns_image(icon)
  IN  IF icon_type = NoType THEN [err |-> "No matching IconType", family |-> fam]
      ELSE IF made.err # NoError THEN [err |-> made.err, family |-> fam]
      ELSE IF has_icon_with_type(fam, icon_type) THEN [err |-> NoError, family |-> fam]
      ELSE [err |-> NoError, family |-> add_icon_with_type(fam, made.image, icon_type)]

add_icon_to_family_by_short_side(icon, density, fam) ==
  LET side == Min(icon.w, icon.h)
      icon_type == from_pixel_size_and_density(side, side, density)
  IN  IF icon_type # NoType
      THEN IF ~has_icon_with_type(fam, icon_type)
           THEN LET made == make_icns_image(icon)
                IN  IF made.err # NoError
                    THEN [err |-> made.err, family |-> fam]
                    ELSE [err |-> NoError,
                          family |-> add_icon_with_type(fam, made.image, icon_type)]
           ELSE [err |-> NoError, family |-> fam]
      ELSE [err |-> "No matching IconType", family |-> fam]

add_icon_to_family_overwrite(icon, density, fam) ==
  LET icon_type == from_pixel_size_and_density(icon.w, icon.h, density)
      made == make_icns_image(icon)
  IN  IF icon_type = NoType THEN [err |-> "No matching IconType", family |-> fam]
      ELSE IF made.err # NoError THEN [err |-> made.err, family |-> fam]
      ELSE [err |-> NoError,
            family |-> add_icon_with_type({e \in fam : e.icon_type # icon_type},
                                          made.image, icon_type)]

add_icon_to_family(icon, density, fam) ==
  LET icon_type == from_pixel_size_and_density(icon.w, icon.h, density)
  IN  IF icon_type # NoType
      THEN IF ~has_icon_with_type(fam, icon_type)
           THEN LET made == make_icns_image(icon)
                IN  IF made.err # NoError
                    THEN [err |-> made.err, family |-> fam]
                    ELSE [err |-> NoError,
                          family |-> add_icon_with_type(fam, made.image, icon_type)]
           ELSE [err |-> NoError, family |-> fam]
      ELSE [err |-> "No matching IconType", family |-> fam]

\* icon.resize_exact(next_size_down, next_size_down, Lanczos3): the colour type
\* is kept, the dimensions become exactly the ones asked for.
resize_exact(icon, nwidth, nheight) ==
  [icon EXCEPT !.w = nwidth, !.h = nheight, !.resized = TRUE]

\* image::open(&icon_path)?
Decoded(k) ==
  [w |-> files[k].w, h |-> files[k].h, color |-> files[k].color, src |-> k,
   resized |-> FALSE]

NoOutput == [kind |-> "none", src |-> 0, family |-> {}]

(***************************************************************************)
(* create_icns_file, step by step                                          *)
(***************************************************************************)
IcnsIdle ==
  /\ files = <<>> /\ pc = "idle" /\ i = 0 /\ images_to_resize = <<>> /\ family = {}
  /\ offered = <<>> /\ result = "pending" /\ error = NoError /\ out_file = NoOutput

RoundIdle == probe = <<0, 0>> /\ probe_out = <<0, 0, FALSE>>

NoPath == [stem |-> "", ext |-> ""]

NotRun == [status |-> "not run", stdout |-> <<>>]

NoVersion == [some |-> FALSE, text |-> <<>>]

CarPending == [tag |-> "pending", compiled |-> FALSE, how |-> "none"]

CarIdle ==
  /\ icons_left = [some |-> FALSE, list |-> <<>>] /\ icon_composer_icon_path = NoPath
  /\ actool_output = NotRun /\ version = NoVersion /\ car_pc = "idle"
  /\ car_result = CarPending

Init ==
  /\ files \in SeqsUpTo(SampleFiles, MaxFiles)
  /\ pc = "start"
  /\ i = 0
  /\ images_to_resize = <<>>
  /\ family = {}
  /\ offered = <<>>
  /\ result = "pending"
  /\ error = NoError
  /\ out_file = NoOutput
  /\ RoundIdle
  /\ CarIdle

Return(res, err, out) ==
  /\ pc' = "done"
  /\ result' = res
  /\ error' = err
  /\ out_file' = out

\* if settings.icon_files().count() == 0 { return Ok(None); }
CheckCountNoEarlyReturn ==
  /\ pc = "start"
  /\ pc' = "scan"
  /\ UNCHANGED <<files, i, images_to_resize, family, offered, result, error, out_file>>

CheckCount ==
  /\ pc = "start"
  /\ IF Len(files) = 0
     THEN Return("OkNone", NoError, NoOutput)
     ELSE /\ pc' = "scan"
          /\ UNCHANGED <<result, error, out_file>>
  /\ UNCHANGED <<files, i, images_to_resize, family, offered>>

FirstIcns == CHOOSE k \in 1..Len(files) :
               /\ files[k].kind = "icns"
               /\ \A m \in 1..(k - 1) : files[m].kind # "icns"

\* If one of the icon files is already an ICNS file, just use that.
UseIcnsFile ==
  /\ pc = "scan"
  /\ \E k \in 1..Len(files) : files[k].kind = "icns"
  /\ \E copied \in BOOLEAN :
       IF copied
       THEN Return("OkSome", NoError, [kind |-> "copy", src |-> FirstIcns, family |-> {}])
       ELSE Return("Err", "io", NoOutput)
  /\ UNCHANGED <<files, i, images_to_resize, family, offered>>

\* let mut family = icns::IconFamily::new(); let mut images_to_resize = vec![];
NewFamily ==
  /\ pc = "scan"
  /\ \A k \in 1..Len(files) : files[k].kind # "icns"
  /\ pc' = "read"
  /\ i' = 1
  /\ family' = {}
  /\ images_to_resize' = <<>>
  /\ UNCHANGED <<files, offered, result, error, out_file>>

\* if icon_path.extension() == "car" { continue; }
SkipCar ==
  /\ pc = "read"
  /\ i <= Len(files)
  /\ files[i].kind = "car"
  /\ i' = i + 1
  /\ UNCHANGED <<files, pc, images_to_resize, family, offered, result, error, out_file>>

\* let icon = image::open(&icon_path)?;
OpenFails ==
  /\ pc = "read"
  /\ i <= Len(files)
  /\ files[i].kind = "undecodable"
  /\ Return("Err", "image", NoOutput)
  /\ UNCHANGED <<files, i, images_to_resize, family, offered>>

\* add_icon_to_family(icon, density, &mut family)?  of either loop
Offer(icon, density) ==
  LET r == add_icon_to_family(icon, density, family)
  IN  /\ family' = r.family
      /\ offered' = Append(offered, icon.src)
      /\ IF r.err = NoError
         THEN UNCHANGED <<pc, result, error, out_file>>
         ELSE Return("Err", r.err, NoOutput)

\* orig_size > next_size_down: images_to_resize.push((icon, next_size_down, density))
ResizeAtOnce ==
  /\ pc = "read"
  /\ i <= Len(files)
  /\ files[i].kind = "image"
  /\ LET icon == Decoded(i)
         orig_size == OrigSize(icon.w, icon.h)
         next_size_down == NextSizeDown(orig_size)
     IN  /\ NeedsResize(orig_size, next_size_down)
         /\ Offer(resize_exact(icon, next_size_down, next_size_down), Density(files[i]))
  /\ i' = i + 1
  /\ UNCHANGED <<files, images_to_resize>>

QueueForResize ==
  /\ pc = "read"
  /\ i <= Len(files)
  /\ files[i].kind = "image"
  /\ LET icon == Decoded(i)
         orig_size == OrigSize(icon.w, icon.h)
         next_size_down == NextSizeDown(orig_size)
     IN  /\ NeedsResize(orig_size, next_size_down)
         /\ images_to_resize' =
              Append(images_to_resize,
                     [icon |-> icon, size |-> next_size_down, density |-> Density(files[i])])
  /\ i' = i + 1
  /\ UNCHANGED <<files, pc, family, offered, result, error, out_file>>

\* else { add_icon_to_family(icon, density, &mut family)?; }
AddDirect ==
  /\ pc = "read"
  /\ i <= Len(files)
  /\ files[i].kind = "image"
  /\ LET icon == Decoded(i)
         orig_size == OrigSize(icon.w, icon.h)
         next_size_down == NextSizeDown(orig_size)
     IN  /\ ~NeedsResize(orig_size, next_size_down)
         /\ Offer(icon, Density(files[i]))
  /\ i' = i + 1
  /\ UNCHANGED <<files, images_to_resize>>

\* the read loop is over; for (icon, next_size_down, density) in images_to_resize
EndRead ==
  /\ pc = "read"
  /\ i > Len(files)
  /\ pc' = "resize"
  /\ UNCHANGED <<files, i, images_to_resize, family, offered, result, error, out_file>>

ResizeAndAdd ==
  /\ pc = "resize"
  /\ images_to_resize # <<>>
  /\ LET next == Head(images_to_resize)
         icon == resize_exact(next.icon, next.size, next.size)
     IN  Offer(icon, next.density)
  /\ images_to_resize' = Tail(images_to_resize)
  /\ UNCHANGED <<files, i>>

\* if !family.is_empty() { ... family.write(icns_file)?; Ok(Some(dest_path)) }
WriteFamily ==
  /\ pc = "resize"
  /\ images_to_resize = <<>>
  /\ family # {}
  /\ \E written \in BOOLEAN :
       IF written
       THEN Return("OkSome", NoError, [kind |-> "family", src |-> 0, family |-> family])
       ELSE Return("Err", "io", NoOutput)
  /\ UNCHANGED <<files, i, images_to_resize, family, offered>>

\* else { Err(GenericError("No usable Icon files found")) }
EmptyFamily ==
  /\ pc = "resize"
  /\ images_to_resize = <<>>
  /\ family = {}
  /\ Return("Err", "No usable Icon files found", NoOutput)
  /\ UNCHANGED <<files, i, images_to_resize, family, offered>>

Next ==
  \/ CheckCount /\ UNCHANGED <<roundVars, carVars>>
  \/ UseIcnsFile /\ UNCHANGED <<roundVars, carVars>>
  \/ NewFamily /\ UNCHANGED <<roundVars, carVars>>
  \/ SkipCar /\ UNCHANGED <<roundVars, carVars>>
  \/ OpenFails /\ UNCHANGED <<roundVars, carVars>>
  \/ QueueForResize /\ UNCHANGED <<roundVars, carVars>>
  \/ AddDirect /\ UNCHANGED <<roundVars, carVars>>
  \/ EndRead /\ UNCHANGED <<roundVars, carVars>>
  \/ ResizeAndAdd /\ UNCHANGED <<roundVars, carVars>>
  \/ WriteFamily /\ UNCHANGED <<roundVars, carVars>>
  \/ EmptyFamily /\ UNCHANGED <<roundVars, carVars>>

Spec == Init /\ [][Next]_vars

(***************************************************************************)
(* Vocabulary of the claims about create_icns_file                         *)
(***************************************************************************)
PowersOfTwo ==
  { 1, 2, 4, 8, 16, 32, 64, 128, 256, 512, 1024, 2048, 4096, 8192, 16384, 32768, 65536 }

IsImage(k) == files[k].kind = "image"

Images == { k \in 1..Len(files) : IsImage(k) }

ShortSide(k) == IF files[k].w < files[k].h THEN files[k].w ELSE files[k].h

\* The largest power of two that is at most s.
RoundedDown(s) == CHOOSE t \in PowersOfTwo : t <= s /\ s < 2 * t

Native(k) == IsImage(k) /\ ShortSide(k) \in PowersOfTwo

Resampled(k) == IsImage(k) /\ ShortSide(k) \notin PowersOfTwo

\* The icon type the (possibly resampled) size and density of file k map to.
FinalType(k) ==
  IF Native(k)
  THEN from_pixel_size_and_density(files[k].w, files[k].h, Density(files[k]))
  ELSE from_pixel_size_and_density(RoundedDown(ShortSide(k)), RoundedDown(ShortSide(k)),
                                   Density(files[k]))

Supported(k) == files[k].color \in SupportedColors

\* The offer at position p of `offered` ended the run with its error.
AbortedAt(p) ==
  /\ result = "Err"
  /\ error \in {"No matching IconType", "unsupported ColorType"}
  /\ p = Len(offered)

Completed == pc = "done" /\ result = "OkSome" /\ out_file.kind = "family"

\* Position of file k in the order of the offers: the images whose shorter
\* side is a power of two in the caller's order, then the others in the
\* caller's order.
OfferRank(k) == IF Native(k) THEN k ELSE Len(files) + k

(***************************************************************************)
(* C1 (as stated): in a completed run, the image in a slot is the earliest *)
(* image of the caller's order whose (possibly resampled) size and density *)
(* map to that slot.                                                       *)
(***************************************************************************)
C1_FirstWriterInCallerOrder ==
  Completed =>
    \A e \in out_file.family :
      \A k \in Images : FinalType(k) = e.icon_type => e.src <= k

(***************************************************************************)
(* C1 (amended): at every moment the image in a slot is the first image    *)
(* offered for that slot, offers being made in the order power-of-two      *)
(* sided images first (caller order), resampled images second (caller      *)
(* order); every later offer for the slot is skipped without an error and  *)
(* leaves the slot's payload as it was.                                    *)
(***************************************************************************)
C1_FirstOfferWins ==
  /\ \A p \in 1..Len(offered) :
       LET t == FinalType(offered[p])
           first == CHOOSE q \in 1..p :
                      /\ FinalType(offered[q]) = t
                      /\ \A r \in 1..(q - 1) : FinalType(offered[r]) # t
       IN  (t # NoType /\ ~AbortedAt(first)) =>
             /\ \E e \in family : e.icon_type = t /\ e.src = offered[first]
             /\ \A e \in family : e.icon_type = t => e.src = offered[first]
             /\ first < p => ~AbortedAt(p)
  /\ \A p, q \in 1..Len(offered) :
       p < q => OfferRank(offered[p]) < OfferRank(offered[q])
  /\ Completed =>
       \A e \in out_file.family :
         \A k \in Images : FinalType(k) = e.icon_type => OfferRank(e.src) <= OfferRank(k)

C1_Witness ==
  /\ Completed
  /\ \E e \in out_file.family :
       \E k \in Images : k < e.src /\ FinalType(k) = e.icon_type
  /\ \E e \in out_file.family :
       \E k \in Images : k > e.src /\ FinalType(k) = e.icon_type /\ Native(k) = Native(e.src)

InOffered(k) == \E p \in 1..Len(offered) : offered[p] = k

Queued(k) == \E p \in 1..Len(images_to_resize) : images_to_resize[p].icon.src = k

(***************************************************************************)
(* C10: images whose shorter side is a power of two are offered during the *)
(* read pass, images needing a resize only once every input has been read; *)
(* so a slot that a native-size image maps to is never held by a           *)
(* downsampled one, and among the resized images the caller's order        *)
(* decides.                                                                *)
(***************************************************************************)
C10_TwoPhaseInsertion ==
  /\ pc = "read" =>
       \A k \in Images :
         k < i => /\ Native(k) => InOffered(k) /\ ~Queued(k)
                  /\ Resampled(k) => Queued(k) /\ ~InOffered(k)
  /\ \A p \in 1..Len(offered) :
       Resampled(offered[p]) => pc \in {"resize", "done"} /\ i = Len(files) + 1
  /\ \A e \in family :
       e.resized =>
         /\ Resampled(e.src)
         /\ \A k \in Images : FinalType(k) = e.icon_type => Resampled(k) /\ e.src <= k
  /\ (pc = "resize" \/ Completed) =>
       \A k \in Images :
         (Native(k) /\ FinalType(k) # NoType) =>
           \E e \in family : e.icon_type = FinalType(k) /\ ~e.resized

C10_Witness ==
  /\ Completed
  /\ \E e \in family :
       /\ ~e.resized
       /\ \E k \in Images : k < e.src /\ Resampled(k) /\ FinalType(k) = e.icon_type
  /\ \E e \in family : e.resized

(***************************************************************************)
(* C2: an image that maps to no slot is a soft failure: it does not end    *)
(* the run, and the run succeeds if another image filled a slot.           *)
(***************************************************************************)
C2_UnusableIsSoftFailure ==
  \A p \in 1..Len(offered) :
    (FinalType(offered[p]) = NoType /\ family # {}) =>
      /\ ~AbortedAt(p)
      /\ (pc = "done" /\ error # "io") => result = "OkSome"

OnlyUnusable == \A k \in 1..Len(files) : IsImage(k) /\ FinalType(k) = NoType

EmptyFamilyError == result = "Err" /\ error = "No usable Icon files found"

NoEmptyContainer ==
  /\ out_file.kind = "family" => out_file.family # {}
  /\ result = "OkSome" => out_file.kind # "none"

C4_OkNoneWithoutUsableIcons ==
  ( /\ pc = "done"
    /\ family = {}
    /\ out_file.kind # "copy"
    /\ error \notin {"io", "image", "unsupported ColorType"} )
  => result = "OkNone"

NotUpscaled(e) ==
  /\ IsImage(e.src)
  /\ e.w <= files[e.src].w
  /\ e.h <= files[e.src].h
  /\ \/ ~e.resized /\ e.w = files[e.src].w /\ e.h = files[e.src].h
     \/ e.resized /\ e.w = e.h /\ e.w < ShortSide(e.src)

(***************************************************************************)
(* C5: every stored image is no wider and no higher than the decoded image *)
(* it came from: it is stored at its original size, or shrunk to a square  *)
(* whose side is strictly below the shorter side of the original.          *)
(***************************************************************************)
C5_NonUpscale ==
  /\ \A e \in family : NotUpscaled(e)
  /\ \A e \in out_file.family : NotUpscaled(e)
  /\ \A p \in 1..Len(images_to_resize) :
       /\ images_to_resize[p].size < ShortSide(images_to_resize[p].icon.src)
       /\ images_to_resize[p].size >= 1

C5_Witness ==
  /\ Completed
  /\ \E e \in out_file.family : e.resized /\ e.w < files[e.src].w /\ e.w < files[e.src].h
  /\ \E e \in out_file.family : ~e.resized /\ e.w = files[e.src].w

OccupiedBefore(p) ==
  \E q \in 1..(p - 1) : FinalType(offered[q]) = FinalType(offered[p])

C7_WitnessAbort ==
  \E p \in 1..Len(offered) :
    /\ FinalType(offered[p]) # NoType /\ ~Supported(offered[p]) /\ ~OccupiedBefore(p)
    /\ AbortedAt(p) /\ family # {}

ShortSideType(k) ==
  from_pixel_size_and_density(ShortSide(k), ShortSide(k), Density(files[k]))

Read(k) == pc \in {"resize", "done"} \/ (pc = "read" /\ k < i)

C8_WitnessNonSquare ==
  \E p \in 1..Len(offered) :
    /\ Native(offered[p]) /\ files[offered[p]].w # files[offered[p]].h
    /\ ShortSideType(offered[p]) # NoType
    /\ AbortedAt(p)

(***************************************************************************)
(* The size rounding of lines 74-77 on its own                             *)
(***************************************************************************)
NotClassified == <<0, 0, FALSE>>

InitRound ==
  /\ probe \in { <<s, s>> : s \in 1..MaxSide }
                 \cup { <<s, MaxSide>> : s \in 1..MaxSide }
                 \cup { <<MaxSide, s>> : s \in 1..MaxSide }
  /\ probe_out = NotClassified
  /\ IcnsIdle
  /\ CarIdle

\* let (w, h) = icon.dimensions(); orig_size; next_size_down; orig_size > next_size_down
Classify ==
  /\ probe_out = NotClassified
  /\ LET orig_size == OrigSize(probe[1], probe[2])
         next_size_down == NextSizeDown(orig_size)
     IN  probe_out' = <<orig_size, next_size_down, NeedsResize(orig_size, next_size_down)>>
  /\ UNCHANGED <<probe, icnsVars, carVars>>

NextRound == Classify

SpecRound == InitRound /\ [][NextRound]_vars

(***************************************************************************)
(* C6: for every side length s = min(width, height) >= 1 the resize target *)
(* t is 2^floor(log2(s)): a power of two with t <= s < 2t, equal to s      *)
(* exactly when s is a power of two; the image is queued for resizing if   *)
(* and only if s is not a power of two.                                    *)
(***************************************************************************)
C6_RoundingProperty ==
  probe_out # NotClassified =>
    LET s == IF probe[1] < probe[2] THEN probe[1] ELSE probe[2]
        t == probe_out[2]
    IN  /\ probe_out[1] = s
        /\ t \in PowersOfTwo
        /\ t <= s /\ s < 2 * t
        /\ (t = s) <=> (s \in PowersOfTwo)
        /\ probe_out[3] <=> (s \notin PowersOfTwo)

C6_Witness ==
  /\ probe[1] > probe[2]
  /\ probe[2] = 1000
  /\ probe_out = <<1000, 512, TRUE>>

(***************************************************************************)
(* Text, as sequences of tokens: a digit, ".", "+", " " (whitespace), "\n",*)
(* a letter "x", and the words "short-" and "bundle-version:".             *)
(***************************************************************************)
Digits == {"0", "1", "2", "3", "4", "5", "6", "7", "8", "9"}

DigitValue(c) ==
  CASE c = "0" -> 0 [] c = "1" -> 1 [] c = "2" -> 2 [] c = "3" -> 3 [] c = "4" -> 4
    [] c = "5" -> 5 [] c = "6" -> 6 [] c = "7" -> 7 [] c = "8" -> 8 [] c = "9" -> 9

Prefix == <<"short-", "bundle-version:">>

\* str::lines(): the text between line breaks; a final line break opens no line.
RECURSIVE Lines(_)
Lines(text) ==
  IF text = <<>> THEN <<>>
  ELSE LET breaks == { n \in 1..Len(text) : text[n] = "\n" }
           n == IF breaks = {} THEN Len(text) + 1
                ELSE CHOOSE b \in breaks : \A c \in breaks : b <= c
       IN  <<SubSeq(text, 1, n - 1)>> \o Lines(SubSeq(text, n + 1, Len(text)))

\* str::trim(): without leading and trailing whitespace.
RECURSIVE TrimStart(_)
TrimStart(text) ==
  IF text # <<>> /\ Head(text) = " " THEN TrimStart(Tail(text)) ELSE text

RECURSIVE TrimEnd(_)
TrimEnd(text) ==
  IF text # <<>> /\ text[Len(text)] = " "
  THEN TrimEnd(SubSeq(text, 1, Len(text) - 1)) ELSE text

Trim(text) == TrimEnd(TrimStart(text))

StartsWith(text, prefix) ==
  Len(text) >= Len(prefix) /\ SubSeq(text, 1, Len(prefix)) = prefix

\* line.strip_prefix("short-bundle-version:") of a line that has the prefix
StripPrefix(text, prefix) == SubSeq(text, Len(prefix) + 1, Len(text))

Some(text) == [some |-> TRUE, text |-> text]

\* fn parse_actool_version(output: &str) -> Option<String>
parse_actool_version(output) ==
  LET ls == Lines(output)
      hits == { k \in 1..Len(ls) : StartsWith(Trim(ls[k]), Prefix) }
  IN  IF hits = {} THEN NoVersion
      ELSE LET k == CHOOSE h \in hits : \A g \in hits : h <= g
           IN  Some(Trim(StripPrefix(Trim(ls[k]), Prefix)))

\* pub fn get_actool_version() -> Option<String>
get_actool_version(run) ==
  IF run.status = "ok" THEN parse_actool_version(run.stdout) ELSE NoVersion

\* version.split('.').next()
BeforeFirstDot(text) ==
  LET dots == { n \in 1..Len(text) : text[n] = "." }
  IN  IF dots = {} THEN text
      ELSE SubSeq(text, 1, (CHOOSE d \in dots : \A e \in dots : d <= e) - 1)

RECURSIVE DropZeros(_)
DropZeros(ds) == IF ds # <<>> /\ Head(ds) = "0" THEN DropZeros(Tail(ds)) ELSE ds

RECURSIVE Value(_)
Value(ds) ==
  IF ds = <<>> THEN 0
  ELSE 10 * Value(SubSeq(ds, 1, Len(ds) - 1)) + DigitValue(ds[Len(ds)])

U32Max == <<"4", "2", "9", "4", "9", "6", "7", "2", "9", "5">>

\* Of two digit strings of the same length, the first is the larger number.
Exceeds(a, b) ==
  \E n \in 1..Len(a) :
    /\ DigitValue(a[n]) > DigitValue(b[n])
    /\ \A m \in 1..(n - 1) : a[m] = b[m]

\* A major number too large for the model's integers: it stands for itself.
Huge == 1000000000

NoMajor == [some |-> FALSE, value |-> 0]

\* s.parse::<u32>().ok(): an optional "+", then one or more digits, the
\* number at most u32::MAX.
ParseU32(text) ==
  LET body == IF text # <<>> /\ Head(text) = "+" THEN Tail(text) ELSE text
      ds == DropZeros(body)
  IN  IF body = <<>> \/ \E n \in 1..Len(body) : body[n] \notin Digits THEN NoMajor
      ELSE IF Len(ds) > 10 \/ (Len(ds) = 10 /\ Exceeds(ds, U32Max)) THEN NoMajor
      ELSE [some |-> TRUE, value |-> IF Len(ds) = 10 THEN Huge ELSE Value(ds)]

\* let major_version: Option<u32> = version.split('.').next().and_then(|s| s.parse().ok());
MajorVersion(text) == ParseU32(BeforeFirstDot(text))

\* Check actool version - must be >= 26
MinMajor == 26

VersionGateOpenWhenUnparsed(v) ==
  IF ~v.some THEN "skip"
  ELSE LET major == MajorVersion(v.text)
       IN  IF major.some /\ major.value < MinMajor THEN "skip" ELSE "compile"

VersionGate(v) ==
  IF v.some
  THEN LET major == MajorVersion(v.text)
       IN  IF major.some
           THEN IF major.value < MinMajor THEN "skip" ELSE "compile"
           ELSE "skip"
  ELSE "skip"

(***************************************************************************)
(* Inputs of create_assets_car_file                                        *)
(***************************************************************************)
SampleIcons == [stem : {"a", "b"}, ext : {"car", "icon", "png"}]

SampleVersions ==
  { <<>>,
    <<"2", "6", ".", "1">>,
    <<"2", "6">>,
    <<"2", "5", ".", "9">>,
    <<"2", "7", ".", "0">>,
    <<"9", ".", "4">>,
    <<"1", "0", "0">>,
    <<"x">>,
    <<"2", "6", "x", ".", "1">>,
    <<".", "5">>,
    <<"2", " ", "6">>,
    <<"+", "2", "6", ".", "0">>,
    <<"0", "2", "5">>,
    <<"4", "2", "9", "4", "9", "6", "7", "2", "9", "6", ".", "0">>,
    <<"4", "2", "9", "4", "9", "6", "7", "2", "9", "5">> }

\* The lines actool may print: the version line as actool writes it, the
\* same line indented and padded, and lines that are not the version line.
SampleLines ==
  { Prefix \o <<" ">> \o v : v \in SampleVersions }
    \cup { <<" ">> \o Prefix \o <<" ", " ">> \o v \o <<" ">> : v \in SampleVersions }
    \cup { <<"bundle-version:", " ", "2", "4">>, <<"x", " ">> \o Prefix }

RECURSIVE JoinLines(_)
JoinLines(ls) == IF ls = <<>> THEN <<>> ELSE Head(ls) \o <<"\n">> \o JoinLines(Tail(ls))

\* What running `actool --version` may give: no output (the command fails or
\* prints bytes that are not UTF-8) or a text of up to MaxLines lines.
ActoolRuns ==
  { [status |-> "failed", stdout |-> <<>>], [status |-> "not utf8", stdout |-> <<>>] }
    \cup { [status |-> "ok", stdout |-> JoinLines(ls)] :
             ls \in SeqsUpTo(SampleLines, MaxLines) }

(***************************************************************************)
(* create_assets_car_file, step by step                                    *)
(***************************************************************************)
InitCar ==
  /\ icons_left \in
       { [some |-> FALSE, list |-> <<>>] }
         \cup { [some |-> TRUE, list |-> l] : l \in SeqsUpTo(SampleIcons, MaxIcons) }
  /\ icon_composer_icon_path = NoPath
  /\ actool_output = NotRun
  /\ version = NoVersion
  /\ car_pc = "start"
  /\ car_result = CarPending
  /\ IcnsIdle
  /\ RoundIdle

CarReturn(tag, how) ==
  /\ car_pc' = "done"
  /\ car_result' = [tag |-> tag, compiled |-> car_pc = "compile", how |-> how]

\* let Some(icons) = settings.icons() else { return Ok(None); };
NoIconsSetting ==
  /\ car_pc = "start"
  /\ ~icons_left.some
  /\ CarReturn("OkNone", "no icons")
  /\ UNCHANGED <<icons_left, icon_composer_icon_path, actool_output, version>>

\* let mut icon_composer_icon_path = None; for icon in icons
StartLoop ==
  /\ car_pc = "start"
  /\ icons_left.some
  /\ car_pc' = "loop"
  /\ icon_composer_icon_path' = NoPath
  /\ UNCHANGED <<icons_left, actool_output, version, car_result>>

\* If one of the icon files is already a CAR file, just use that.
UseCarFile ==
  /\ car_pc = "loop"
  /\ icons_left.list # <<>>
  /\ Head(icons_left.list).ext = "car"
  /\ \E copied \in BOOLEAN :
       IF copied THEN CarReturn("OkSome", "copied") ELSE CarReturn("Err", "io")
  /\ UNCHANGED <<icons_left, icon_composer_icon_path, actool_output, version>>

\* if extension == "icon" { icon_composer_icon_path.replace(icon_path); }
RememberIcon ==
  /\ car_pc = "loop"
  /\ icons_left.list # <<>>
  /\ Head(icons_left.list).ext = "icon"
  /\ icon_composer_icon_path' = Head(icons_left.list)
  /\ icons_left' = [icons_left EXCEPT !.list = Tail(@)]
  /\ UNCHANGED <<actool_output, version, car_pc, car_result>>

SkipOtherIcon ==
  /\ car_pc = "loop"
  /\ icons_left.list # <<>>
  /\ Head(icons_left.list).ext \notin {"car", "icon"}
  /\ icons_left' = [icons_left EXCEPT !.list = Tail(@)]
  /\ UNCHANGED <<icon_composer_icon_path, actool_output, version, car_pc, car_result>>

\* let Some(icon_composer_icon_path) = icon_composer_icon_path else { return Ok(None); };
NoIconFile ==
  /\ car_pc = "loop"
  /\ icons_left.list = <<>>
  /\ icon_composer_icon_path = NoPath
  /\ CarReturn("OkNone", "no .icon")
  /\ UNCHANGED <<icons_left, icon_composer_icon_path, actool_output, version>>

\* get_actool_version()
GetVersion ==
  /\ car_pc = "loop"
  /\ icons_left.list = <<>>
  /\ icon_composer_icon_path # NoPath
  /\ \E run \in ActoolRuns :
       /\ actool_output' = run
       /\ version' = get_actool_version(run)
  /\ car_pc' = "gate"
  /\ UNCHANGED <<icons_left, icon_composer_icon_path, car_result>>

\* the three `return Ok(None)` of lines 155-173
SkipCompile ==
  /\ car_pc = "gate"
  /\ VersionGate(version) = "skip"
  /\ CarReturn("OkNone", "actool version")
  /\ UNCHANGED <<icons_left, icon_composer_icon_path, actool_output, version>>

PassGate ==
  /\ car_pc = "gate"
  /\ VersionGate(version) = "compile"
  /\ car_pc' = "compile"
  /\ UNCHANGED <<icons_left, icon_composer_icon_path, actool_output, version, car_result>>

\* lines 175-234: copy the .icon directory, run actool --compile, copy Assets.car
CompileOutcomes ==
  { "temp dir", "not a directory", "copy_dir", "create_dir_all", "actool",
    "no Assets.car", "copy_file" }

Compile ==
  /\ car_pc = "compile"
  /\ \/ CarReturn("OkSome", "compiled")
     \/ \E failure \in CompileOutcomes : CarReturn("Err", failure)
  /\ UNCHANGED <<icons_left, icon_composer_icon_path, actool_output, version>>

NextCar ==
  \/ NoIconsSetting /\ UNCHANGED <<icnsVars, roundVars>>
  \/ StartLoop /\ UNCHANGED <<icnsVars, roundVars>>
  \/ UseCarFile /\ UNCHANGED <<icnsVars, roundVars>>
  \/ RememberIcon /\ UNCHANGED <<icnsVars, roundVars>>
  \/ SkipOtherIcon /\ UNCHANGED <<icnsVars, roundVars>>
  \/ NoIconFile /\ UNCHANGED <<icnsVars, roundVars>>
  \/ GetVersion /\ UNCHANGED <<icnsVars, roundVars>>
  \/ SkipCompile /\ UNCHANGED <<icnsVars, roundVars>>
  \/ PassGate /\ UNCHANGED <<icnsVars, roundVars>>
  \/ Compile /\ UNCHANGED <<icnsVars, roundVars>>

SpecCar == InitCar /\ [][NextCar]_vars

Stdout == actool_output.stdout

LineStarts ==
  { a \in 1..Len(Stdout) : Stdout[a] # "\n" /\ (a = 1 \/ Stdout[a - 1] = "\n") }

\* The last position of the line that starts at a.
LineEnd(a) ==
  CHOOSE b \in a..Len(Stdout) :
    /\ \A n \in a..b : Stdout[n] # "\n"
    /\ b = Len(Stdout) \/ Stdout[b + 1] = "\n"

\* Where the text of the line starting at a begins, past its indentation
\* (past the end of the line when the line is blank).
TextStart(a) ==
  CHOOSE c \in a..(LineEnd(a) + 1) :
    /\ \A n \in a..(c - 1) : Stdout[n] = " "
    /\ c = LineEnd(a) + 1 \/ Stdout[c] # " "

IsVersionLine(a) ==
  LET c == TextStart(a)
  IN  c < LineEnd(a) /\ Stdout[c] = "short-" /\ Stdout[c + 1] = "bundle-version:"

\* The text after the prefix on the version line starting at a, from its
\* first to its last token that is not whitespace.
VersionText(a) ==
  LET from == TextStart(a) + 2
      to == LineEnd(a)
      solid == { n \in from..to : Stdout[n] # " " }
  IN  IF solid = {} THEN <<>>
      ELSE SubSeq(Stdout, CHOOSE d \in solid : \A n \in solid : d <= n,
                          CHOOSE e \in solid : \A n \in solid : e >= n)

ExpectedVersion ==
  LET hits == { a \in LineStarts : IsVersionLine(a) }
  IN  IF actool_output.status # "ok" \/ hits = {} THEN NoVersion
      ELSE [some |-> TRUE,
            text |-> VersionText(CHOOSE a \in hits : \A h \in hits : a <= h)]

MajorAtLeast26 ==
  /\ version.some
  /\ MajorVersion(version.text).some
  /\ MajorVersion(version.text).value >= 26

(***************************************************************************)
(* C9: with an .icon input and no .car input, create_assets_car_file       *)
(* returns Ok(None) without running the compile step whenever the actool   *)
(* version cannot be obtained, has no parseable major number or has a      *)
(* major number below 26, and reaches the compile step only with a major   *)
(* number of at least 26.  The version is the trimmed text after           *)
(* "short-bundle-version:" on the first line that starts with it (lines    *)
(* being taken without their surrounding whitespace), and there is none    *)
(* when no line does.                                                      *)
(***************************************************************************)
C9_VersionGate ==
  /\ actool_output.status # "not run" =>
       /\ icon_composer_icon_path.ext = "icon"
       /\ icons_left.list = <<>>
       /\ version = ExpectedVersion
  /\ (car_pc = "compile" \/ car_result.compiled) => MajorAtLeast26
  /\ (car_pc = "done" /\ actool_output.status # "not run" /\ ~MajorAtLeast26) =>
       car_result = [tag |-> "OkNone", compiled |-> FALSE, how |-> "actool version"]
  /\ (car_pc = "done" /\ actool_output.status # "not run" /\ MajorAtLeast26) =>
       car_result.compiled

C9_Witness ==
  /\ car_pc = "done"
  /\ car_result = [tag |-> "OkNone", compiled |-> FALSE, how |-> "actool version"]
  /\ actool_output.status = "ok"
  /\ Stdout # <<>>
  /\ Stdout[1] = "bundle-version:"
  /\ version = [some |-> TRUE, text |-> <<"2", "5", ".", "9">>]

C9_WitnessCompile ==
  /\ car_result.compiled
  /\ Len(Lines(Stdout)) = 2
  /\ \E a \in LineStarts : a > 1 /\ IsVersionLine(a) /\ Stdout[a] = " "
  /\ version.text = <<"+", "2", "6", ".", "0">>

====
